---- MODULE Spec2Model ----
(***************************************************************************)
(* Command resolution of the SONiC "show" command line (show/main.py).     *)
(*                                                                         *)
(* A command name is a sequence of one-character strings, so that prefix   *)
(* tests, lower-casing and sorting are computed, not assumed.  A node of   *)
(* the registry is named by a string; a group maps child names to nodes.  *)
(***************************************************************************)
EXTENDS Integers, Sequences, FiniteSets, TLC

VARIABLES
    nodes,      \* the registry: node -> [cls, commands, default_cmd_name, default_if_no_args]
    aliases,    \* _config.aliases: alias name -> command name
    argv,       \* the argument vector handed to the root group
    cur,        \* the group whose context is being invoked
    ctx_args,   \* the arguments of that context
    pc,         \* "invoke" while a group context is to be invoked, "exit" after
    exit_code,  \* the process's exit code once pc = "exit"
    message,    \* the usage error or help shown, <<>> when none
    invoked,    \* the Command nodes handed their arguments: <<[cmd, args]>>
    steps       \* one record per resolve_command call, in order

vars == <<nodes, aliases, argv, cur, ctx_args, pc, exit_code, message, invoked, steps>>

----------------------------------------------------------------------------
(* Bounds of the model. *)

MaxArgs == 3
MaxAliases == 2
MaxTail == 1

----------------------------------------------------------------------------
(* Python values. *)

\* None where a command name is expected (default_cmd_name, ctx.arg0).
None == <<"None">>

\* None where a command object is expected (the result of get_command).
NoCommand == "None"

\* The letters in code point order: str comparison and str.lower() rest on it.
Alphabet ==
    << "A","B","C","D","E","F","G","H","I","J","K","L","M",
       "N","O","P","Q","R","S","T","U","V","W","X","Y","Z",
       "a","b","c","d","e","f","g","h","i","j","k","l","m",
       "n","o","p","q","r","s","t","u","v","w","x","y","z" >>

\* ord(), up to the offset of "A"
ordinal == [c \in {Alphabet[i] : i \in 1..Len(Alphabet)} |->
               CHOOSE i \in 1..Len(Alphabet) : Alphabet[i] = c]

ord(c) == ordinal[c]

\* str.lower(), letter by letter
lower_letter == [c \in DOMAIN ordinal |->
                    IF ordinal[c] <= 26 THEN Alphabet[ordinal[c] + 26] ELSE c]

lower(s) == [i \in 1..Len(s) |-> lower_letter[s[i]]]

\* str.startswith()
startswith(s, prefix) ==
    /\ Len(prefix) <= Len(s)
    /\ SubSeq(s, 1, Len(prefix)) = prefix

\* str.__lt__: lexicographic by code point, a proper prefix first
RECURSIVE str_lt(_, _)
str_lt(a, b) ==
    IF b = <<>> THEN FALSE
    ELSE IF a = <<>> THEN TRUE
    ELSE IF a[1] = b[1] THEN str_lt(Tail(a), Tail(b))
    ELSE ord(a[1]) < ord(b[1])

\* sorted() of a collection of distinct strings: each at the place given by
\* the number of strings below it
sorted(S) ==
    LET below == [x \in S |-> Cardinality({y \in S : str_lt(y, x)})]
    IN  [i \in 1..Cardinality(S) |-> CHOOSE x \in S : below[x] = i - 1]

Range(f) == {f[i] : i \in DOMAIN f}

----------------------------------------------------------------------------
(* Config: the alias table. *)

\* RawConfigParser.optionxform: option names are lower-cased when read.
optionxform(key) == lower(key)

\* Config.read_config: dict.update with the (name, value) pairs of the
\* [aliases] section, a later pair replacing an earlier one of the same name.
\* A missing file or section gives no pair.
RECURSIVE read_config(_)
read_config(items) ==
    IF items = <<>> THEN <<>>
    ELSE LET n    == Len(items)
             rest == read_config(SubSeq(items, 1, n - 1))
             key  == optionxform(items[n][1])
         IN  (key :> items[n][2]) @@ rest

----------------------------------------------------------------------------
(* The registry built by the decorators of show/main.py. *)

AliasedGroupNode(cmds) ==
    [cls |-> "AliasedGroup", commands |-> cmds,
     default_cmd_name |-> None, default_if_no_args |-> FALSE]

GroupNode(cmds) ==
    [cls |-> "Group", commands |-> cmds,
     default_cmd_name |-> None, default_if_no_args |-> FALSE]

CommandNode ==
    [cls |-> "Command", commands |-> <<>>,
     default_cmd_name |-> None, default_if_no_args |-> FALSE]

cli_commands ==
    (<<"i","p">> :> "ip") @@
    (<<"i","n","t","e","r","f","a","c","e","s">> :> "interfaces") @@
    (<<"l","l","d","p">> :> "lldp") @@
    (<<"b","g","p">> :> "bgp") @@
    (<<"p","l","a","t","f","o","r","m">> :> "platform") @@
    (<<"l","o","g","g","i","n","g">> :> "logging") @@
    (<<"v","e","r","s","i","o","n">> :> "version") @@
    (<<"e","n","v","i","r","o","n","m","e","n","t">> :> "environment") @@
    (<<"p","r","o","c","e","s","s","e","s">> :> "processes") @@
    (<<"u","s","e","r","s">> :> "users") @@
    (<<"t","e","c","h","s","u","p","p","o","r","t">> :> "techsupport") @@
    (<<"r","u","n","n","i","n","g","c","o","n","f","i","g","u","r","a","t","i","o","n">> :> "runningconfiguration") @@
    (<<"s","t","a","r","t","u","p","c","o","n","f","i","g","u","r","a","t","i","o","n">> :> "startupconfiguration") @@
    (<<"a","r","p">> :> "arp") @@
    (<<"r","o","u","t","e">> :> "route") @@
    (<<"n","t","p">> :> "ntp") @@
    (<<"u","p","t","i","m","e">> :> "uptime")

\* ip.add_command(bgp) placed after 'bgp' and 'interfaces' were rebound to the
\* runningconfiguration / startupconfiguration commands of the same names.
ip_commands_rebound ==
    (<<"i","n","t","e","r","f","a","c","e","s">> :> "runningconfiguration.interfaces") @@
    (<<"b","g","p">> :> "startupconfiguration.bgp") @@
    (<<"a","r","p">> :> "arp") @@
    (<<"r","o","u","t","e">> :> "route")

ip_commands ==
    (<<"i","n","t","e","r","f","a","c","e","s">> :> "interfaces") @@
    (<<"b","g","p">> :> "bgp") @@
    (<<"a","r","p">> :> "arp") @@
    (<<"r","o","u","t","e">> :> "route")

interfaces_commands ==
    (<<"s","u","m","m","a","r","y">> :> "interfaces.summary") @@
    (<<"c","o","u","n","t","e","r","s">> :> "interfaces.counters") @@
    (<<"p","o","r","t","c","h","a","n","n","e","l">> :> "interfaces.portchannel") @@
    (<<"s","f","p">> :> "interfaces.sfp")

lldp_commands ==
    (<<"n","e","i","g","h","b","o","r","s">> :> "lldp.neighbors") @@
    (<<"t","a","b","l","e">> :> "lldp.table")

bgp_commands ==
    (<<"n","e","i","g","h","b","o","r">> :> "bgp.neighbor") @@
    (<<"s","u","m","m","a","r","y">> :> "bgp.summary")

platform_commands ==
    (<<"s","u","m","m","a","r","y">> :> "platform.summary") @@
    (<<"s","y","s","e","e","p","r","o","m">> :> "platform.syseeprom")

processes_commands ==
    (<<"c","p","u">> :> "processes.cpu")

runningconfiguration_commands ==
    (<<"b","g","p">> :> "runningconfiguration.bgp") @@
    (<<"i","n","t","e","r","f","a","c","e","s">> :> "runningconfiguration.interfaces") @@
    (<<"s","n","m","p">> :> "runningconfiguration.snmp") @@
    (<<"n","t","p">> :> "runningconfiguration.ntp")

startupconfiguration_commands ==
    (<<"b","g","p">> :> "startupconfiguration.bgp")

\* The groups, each with the class its decorator gives it: @cli.group() with
\* no cls makes a plain click.Group.
show_groups ==
    ("cli" :> AliasedGroupNode(cli_commands)) @@
    ("ip" :> GroupNode(ip_commands)) @@
    ("interfaces" :> AliasedGroupNode(interfaces_commands)) @@
    ("lldp" :> AliasedGroupNode(lldp_commands)) @@
    ("bgp" :> AliasedGroupNode(bgp_commands)) @@
    ("platform" :> AliasedGroupNode(platform_commands)) @@
    ("processes" :> GroupNode(processes_commands)) @@
    ("runningconfiguration" :> AliasedGroupNode(runningconfiguration_commands)) @@
    ("startupconfiguration" :> AliasedGroupNode(startupconfiguration_commands))

\* Every node object: the groups, and one Command per decorated function.
show_registry ==
    LET leaves == UNION {Range(show_groups[g].commands) : g \in DOMAIN show_groups}
                    \ DOMAIN show_groups
    IN  show_groups @@ [n \in leaves |-> CommandNode]

----------------------------------------------------------------------------
(* A group of any commands, as DefaultGroup.__init__ can build one. *)

\* The commands a group may hold, by name.
GroupChild ==
    (<<"a">> :> "a") @@
    (<<"a","b">> :> "ab") @@
    (<<"A","b">> :> "Ab") @@
    (<<"b">> :> "b")

\* DefaultGroup.__init__: default and default_if_no_args keyword arguments
GroupRegistry(names, default, if_no_args) ==
    ("G" :> [cls |-> "AliasedGroup",
             commands |-> [n \in names |-> GroupChild[n]],
             default_cmd_name |-> default,
             default_if_no_args |-> if_no_args])
    @@ [c \in {GroupChild[n] : n \in names} |-> CommandNode]

\* The groups DefaultGroup.__init__ can build from these commands: a default,
\* when given, names a command of the group, and default_if_no_args needs one.
GroupRegistries ==
    { GroupRegistry(names, default, if_no_args) :
          names \in SUBSET DOMAIN GroupChild,
          default \in DOMAIN GroupChild \cup {None},
          if_no_args \in BOOLEAN }

----------------------------------------------------------------------------
(* click.Group.list_commands.  A commands dict does not change after        *)
(* start-up, so its sorted listing is computed once for each dict a         *)
(* registry may hold.                                                       *)

AllCommands ==
    {show_groups[g].commands : g \in DOMAIN show_groups}
        \cup {r["G"].commands : r \in GroupRegistries}

\* sorted(self.commands)
Listing == [cmds \in AllCommands |-> sorted(DOMAIN cmds)]

----------------------------------------------------------------------------
(* click.Group, DefaultGroup and AliasedGroup: get_command. *)

\* What a get_command call leaves behind: the command returned (NoCommand for
\* None), ctx.arg0 as <<>> while unset and <<value>> once set, or the
\* UsageError raised by ctx.fail with the names its message lists.
Return(rv, arg0) == [kind |-> "return", rv |-> rv, arg0 |-> arg0, matches |-> <<>>]

Fail(names) == [kind |-> "fail", rv |-> NoCommand, arg0 |-> <<>>, matches |-> names]

\* click.Group.get_command: self.commands.get(cmd_name)
Group_get_command(g, cmd_name) ==
    IF cmd_name \in DOMAIN nodes[g].commands
    THEN nodes[g].commands[cmd_name]
    ELSE NoCommand

\* click.Group.list_commands
list_commands(g) == Listing[nodes[g].commands]

\* DefaultGroup.get_command, entered with ctx.arg0 as the caller left it
DefaultGroup_get_command(g, cmd_name, arg0) ==
    IF cmd_name \notin DOMAIN nodes[g].commands
    THEN Return(Group_get_command(g, nodes[g].default_cmd_name), <<cmd_name>>)
    ELSE Return(Group_get_command(g, cmd_name), arg0)

\* matches = [x for x in self.list_commands(ctx) if x.lower().startswith(cmd_name.lower())]
startswith_lower(names, prefix) ==
    SelectSeq(names, LAMBDA x : startswith(lower(x), prefix))

abbreviation_matches_case_sensitive(g, cmd_name) ==
    startswith_lower(list_commands(g), cmd_name)

abbreviation_matches(g, cmd_name) ==
    startswith_lower(list_commands(g), lower(cmd_name))

\* The automatic abbreviation of AliasedGroup.get_command, and its default.
automatic_abbreviation_first_match(g, cmd_name) ==
    LET matches == abbreviation_matches(g, cmd_name)
    IN  IF matches = <<>>
        THEN DefaultGroup_get_command(g, nodes[g].default_cmd_name, <<cmd_name>>)
        ELSE DefaultGroup_get_command(g, matches[1], <<>>)

automatic_abbreviation(g, cmd_name) ==
    LET matches == abbreviation_matches(g, cmd_name)
    IN  IF matches = <<>>
        THEN DefaultGroup_get_command(g, nodes[g].default_cmd_name, <<cmd_name>>)
        ELSE IF Len(matches) = 1
        THEN DefaultGroup_get_command(g, matches[1], <<>>)
        ELSE Fail(sorted(Range(matches)))

\* The explicit alias of AliasedGroup.get_command, taken when cmd_name is a key
\* of _config.aliases: whatever the builtin lookup of its target returns.
explicit_alias_ignored(g, cmd_name) == automatic_abbreviation(g, cmd_name)

explicit_alias_falls_through(g, cmd_name) ==
    IF Group_get_command(g, aliases[cmd_name]) # NoCommand
    THEN Return(Group_get_command(g, aliases[cmd_name]), <<>>)
    ELSE automatic_abbreviation(g, cmd_name)

explicit_alias(g, cmd_name) ==
    Return(Group_get_command(g, aliases[cmd_name]), <<>>)

\* AliasedGroup.get_command
AliasedGroup_get_command_alias_first(g, cmd_name) ==
    IF cmd_name \in DOMAIN aliases
    THEN explicit_alias(g, cmd_name)
    ELSE IF Group_get_command(g, cmd_name) # NoCommand
    THEN Return(Group_get_command(g, cmd_name), <<>>)
    ELSE automatic_abbreviation(g, cmd_name)

AliasedGroup_get_command(g, cmd_name) ==
    LET rv == Group_get_command(g, cmd_name)
    IN  IF rv # NoCommand
        THEN Return(rv, <<>>)
        ELSE IF cmd_name \in DOMAIN aliases
        THEN explicit_alias(g, cmd_name)
        ELSE automatic_abbreviation(g, cmd_name)

\* self.get_command, by the class of the group
get_command(g, cmd_name) ==
    IF nodes[g].cls = "AliasedGroup"
    THEN AliasedGroup_get_command(g, cmd_name)
    ELSE Return(Group_get_command(g, cmd_name), <<>>)

----------------------------------------------------------------------------
(* click.MultiCommand and DefaultGroup: parse_args, resolve_command. *)

NoMessage == [text |-> "", names |-> <<>>]

\* UsageError.exit_code, the exit code of a ctx.fail
UsageError_exit_code == 2

\* The exit codes a leaf command's action may end the process with.
ActionExitCodes == {0, 1}

\* DefaultGroup.parse_args, then MultiCommand.parse_args: the arguments the
\* context keeps; <<>> makes the group print its help and exit.
parse_args(g, args) ==
    IF args = <<>> /\ nodes[g].cls = "AliasedGroup" /\ nodes[g].default_if_no_args
    THEN <<nodes[g].default_cmd_name>>
    ELSE args

\* click.MultiCommand.resolve_command
MultiCommand_resolve_command_keeps_token(g, args) ==
    LET r == get_command(g, args[1])
    IN  [ok |-> r.kind = "return" /\ r.rv # NoCommand,
         cmd_name |-> args[1], cmd |-> r.rv, args |-> args, arg0 |-> r.arg0,
         message |-> IF r.kind = "fail"
                     THEN [text |-> "Too many matches", names |-> r.matches]
                     ELSE IF r.rv = NoCommand
                     THEN [text |-> "No such command", names |-> <<args[1]>>]
                     ELSE NoMessage,
         kind |-> r.kind]

MultiCommand_resolve_command(g, args) ==
    LET r == get_command(g, args[1])
    IN  [ok |-> r.kind = "return" /\ r.rv # NoCommand,
         cmd_name |-> args[1], cmd |-> r.rv, args |-> Tail(args), arg0 |-> r.arg0,
         message |-> IF r.kind = "fail"
                     THEN [text |-> "Too many matches", names |-> r.matches]
                     ELSE IF r.rv = NoCommand
                     THEN [text |-> "No such command", names |-> <<args[1]>>]
                     ELSE NoMessage,
         kind |-> r.kind]

\* DefaultGroup.resolve_command: args.insert(0, ctx.arg0) when ctx has arg0
DefaultGroup_resolve_command_drops_arg0(g, args) ==
    MultiCommand_resolve_command(g, args)

DefaultGroup_resolve_command(g, args) ==
    LET base == MultiCommand_resolve_command(g, args)
    IN  IF base.ok /\ base.arg0 # <<>>
        THEN [base EXCEPT !.args = base.arg0 \o base.args]
        ELSE base

\* self.resolve_command, by the class of the group
resolve_command(g, args) ==
    IF nodes[g].cls = "AliasedGroup"
    THEN DefaultGroup_resolve_command(g, args)
    ELSE MultiCommand_resolve_command(g, args)

\* The record kept of one resolve_command call.
Step(g, r) ==
    [group |-> g, cmd_name |-> r.cmd_name, kind |-> r.kind, rv |-> r.cmd,
     arg0 |-> r.arg0, names |-> r.message.names]

----------------------------------------------------------------------------
(* One run of the command line: BaseCommand.main on the root group. *)

\* MultiCommand.parse_args with no argument left: the help is printed and the
\* process exits with 0.
ShowHelp ==
    /\ pc = "invoke"
    /\ parse_args(cur, ctx_args) = <<>>
    /\ pc' = "exit"
    /\ exit_code' = 0
    /\ message' = [text |-> "help", names |-> list_commands(cur)]
    /\ UNCHANGED <<nodes, aliases, argv, cur, ctx_args, invoked, steps>>

\* MultiCommand.invoke whose resolve_command raises UsageError: main() shows
\* the error and exits with UsageError.exit_code.
UsageError_exits_like_help ==
    /\ pc = "invoke"
    /\ parse_args(cur, ctx_args) # <<>>
    /\ \E r \in {resolve_command(cur, parse_args(cur, ctx_args))} :
           /\ ~r.ok
           /\ steps' = Append(steps, Step(cur, r))
           /\ message' = r.message
    /\ pc' = "exit"
    /\ exit_code' = 0
    /\ UNCHANGED <<nodes, aliases, argv, cur, ctx_args, invoked>>

UsageError ==
    /\ pc = "invoke"
    /\ parse_args(cur, ctx_args) # <<>>
    /\ \E r \in {resolve_command(cur, parse_args(cur, ctx_args))} :
           /\ ~r.ok
           /\ steps' = Append(steps, Step(cur, r))
           /\ message' = r.message
    /\ pc' = "exit"
    /\ exit_code' = UsageError_exit_code
    /\ UNCHANGED <<nodes, aliases, argv, cur, ctx_args, invoked>>

\* MultiCommand.invoke resolving to a group: cmd.make_context(cmd_name, args)
\* and the invoke of that context.
Descend ==
    /\ pc = "invoke"
    /\ parse_args(cur, ctx_args) # <<>>
    /\ \E r \in {resolve_command(cur, parse_args(cur, ctx_args))} :
           /\ r.ok
           /\ nodes[r.cmd].cls # "Command"
           /\ steps' = Append(steps, Step(cur, r))
           /\ cur' = r.cmd
           /\ ctx_args' = r.args
    /\ UNCHANGED <<nodes, aliases, argv, pc, exit_code, message, invoked>>

\* MultiCommand.invoke resolving to a Command: the command is handed the
\* remaining arguments, and its action decides the exit code.
InvokeCommand ==
    /\ pc = "invoke"
    /\ parse_args(cur, ctx_args) # <<>>
    /\ \E r \in {resolve_command(cur, parse_args(cur, ctx_args))} :
           /\ r.ok
           /\ nodes[r.cmd].cls = "Command"
           /\ steps' = Append(steps, Step(cur, r))
           /\ invoked' = Append(invoked, [cmd |-> r.cmd, args |-> r.args])
    /\ pc' = "exit"
    /\ \E rc \in ActionExitCodes : exit_code' = rc
    /\ UNCHANGED <<nodes, aliases, argv, cur, ctx_args, message>>

\* BaseCommand.main on group g with args, run to its end: the commands
\* invoked, the message shown, and the resolve_command calls made.
RECURSIVE main(_, _)
main(g, args) ==
    IF parse_args(g, args) = <<>>
    THEN [invoked |-> <<>>, steps |-> <<>>,
          message |-> [text |-> "help", names |-> list_commands(g)]]
    ELSE LET r == resolve_command(g, parse_args(g, args))
         IN  IF ~r.ok
             THEN [invoked |-> <<>>, steps |-> <<Step(g, r)>>, message |-> r.message]
             ELSE IF nodes[r.cmd].cls = "Command"
             THEN [invoked |-> <<[cmd |-> r.cmd, args |-> r.args]>>,
                   steps |-> <<Step(g, r)>>, message |-> NoMessage]
             ELSE LET rest == main(r.cmd, r.args)
                  IN  [rest EXCEPT !.steps = <<Step(g, r)>> \o rest.steps]

BoundedSeq(S, n) == UNION {[1..k -> S] : k \in 0..n}

----------------------------------------------------------------------------
(* The show command: its registry, an aliases.ini, an argument vector. *)

\* The words typed: names of the registry, abbreviations of them in either
\* case, alias names, and a word that is none of these.
Tokens ==
    { <<"i","p">>, <<"i","n","t","e","r","f","a","c","e","s">>, <<"b","g","p">>,
      <<"r","o","u","t","e">>, <<"p","r","o","c","e","s","s","e","s">>,
      <<"c","p","u">>, <<"s","u","m","m","a","r","y">>,
      <<"a","r","p">>,
      <<"i","n","t">>, <<"I","N","T">>, <<"i">>, <<"c">>, <<"s">>, <<"r">>,
      <<"r","t">>, <<"s","t">> }

\* The lines an [aliases] section may hold: one alias of a command, written in
\* capitals, and one whose target is no command of any group.
IniItems ==
    { << <<"R","T">>, <<"r","o","u","t","e">> >>,
      << <<"s","t">>, <<"s","t","a","t","u","s">> >> }

AliasTables == {read_config(items) : items \in BoundedSeq(IniItems, MaxAliases)}

Init ==
    /\ nodes = show_registry
    /\ aliases \in AliasTables
    /\ argv \in BoundedSeq(Tokens, MaxArgs)
    /\ cur = "cli"
    /\ ctx_args = argv
    /\ pc = "invoke"
    /\ exit_code = -1
    /\ message = NoMessage
    /\ invoked = <<>>
    /\ steps = <<>>

Next ==
    \/ ShowHelp
    \/ UsageError
    \/ Descend
    \/ InvokeCommand

Spec == Init /\ [][Next]_vars

----------------------------------------------------------------------------
(* AliasedGroup on its own: any group of commands, any default, any alias   *)
(* table, any word.                                                         *)

GroupTokens == DOMAIN GroupChild \cup { <<"A">> }

GroupIniItems == GroupTokens \X DOMAIN GroupChild

GroupAliasTables ==
    {read_config(items) : items \in BoundedSeq(GroupIniItems, MaxAliases)}

\* The argument vectors: nothing, or a word and up to MaxTail more.
GroupArgs ==
    { <<>> } \cup
    { <<t>> \o tail : t \in GroupTokens,
                      tail \in BoundedSeq({ <<"a">>, <<"b">> }, MaxTail) }

InitGroup ==
    /\ nodes \in {r \in GroupRegistries :
                    /\ r["G"].default_cmd_name \in DOMAIN r["G"].commands \cup {None}
                    /\ r["G"].default_if_no_args => r["G"].default_cmd_name # None}
    /\ aliases \in GroupAliasTables
    /\ argv \in GroupArgs
    /\ cur = "G"
    /\ ctx_args = argv
    /\ pc = "invoke"
    /\ exit_code = -1
    /\ message = NoMessage
    /\ invoked = <<>>
    /\ steps = <<>>

NextGroup ==
    \/ ShowHelp
    \/ UsageError
    \/ InvokeCommand

SpecGroup == InitGroup /\ [][NextGroup]_vars

----------------------------------------------------------------------------
(* Either of the two: the show command, or an AliasedGroup on its own. *)

InitAny == Init \/ InitGroup

SpecAny == InitAny /\ [][Next]_vars

----------------------------------------------------------------------------
(* The outcomes of a resolution, in the words of the specification. *)

Children(g) == DOMAIN nodes[g].commands

Child(g, name) == nodes[g].commands[name]

\* The child names the word is a case-insensitive prefix of.
Abbreviated(g, word) == {n \in Children(g) : startswith(lower(n), lower(word))}

Found(s, node) == s.kind = "return" /\ s.rv = node /\ s.arg0 = <<>>

FoundDefault(s, node, word) == s.kind = "return" /\ s.rv = node /\ s.arg0 = <<word>>

TooManyMatches(s) == s.kind = "fail"

NotFound(s) == s.kind = "return" /\ s.rv = NoCommand

\* names lists exactly the set S, in ascending order
SortedListOf(names, S) ==
    /\ Len(names) = Cardinality(S)
    /\ Range(names) = S
    /\ \A i \in 1..Len(names) : \A j \in 1..Len(names) :
           i < j => str_lt(names[i], names[j])

----------------------------------------------------------------------------
(* Claims about get_command on any group (SpecGroup, SpecAny). *)

\* C1: the exact name of a child of a group resolves to that child, whatever
\* the alias table maps the name to and whatever siblings the name is a
\* prefix of.
C1_ExactMatchWins ==
    \A i \in DOMAIN steps :
        LET s == steps[i]
        IN  s.cmd_name \in Children(s.group)
                => Found(s, Child(s.group, s.cmd_name))

\* The word is a child, an alias of another child, and a proper prefix of a
\* sibling.
C1_Witness ==
    /\ Len(steps) = 1
    /\ LET s == steps[1]
       IN  /\ s.cmd_name \in Children(s.group)
           /\ s.cmd_name \in DOMAIN aliases
           /\ aliases[s.cmd_name] \in Children(s.group) \ {s.cmd_name}
           /\ \E n \in Children(s.group) : n # s.cmd_name /\ startswith(n, s.cmd_name)
           /\ s.rv = Child(s.group, s.cmd_name)

\* C2: an alias a -> b, with b a child and a not a child, resolves to child b,
\* as b itself does, records no implicit argument, and hands the command the
\* arguments after a.
C2_AliasResolvesToTarget ==
    \A i \in DOMAIN steps :
        LET s == steps[i]
            a == s.cmd_name
        IN  (/\ a \notin Children(s.group)
             /\ a \in DOMAIN aliases
             /\ aliases[a] \in Children(s.group))
                => /\ Found(s, Child(s.group, aliases[a]))
                   /\ get_command(s.group, aliases[a]) = Return(s.rv, <<>>)
                   /\ invoked = <<[cmd |-> Child(s.group, aliases[a]), args |-> Tail(argv)]>>

\* The alias is a prefix of several children and the group declares a default.
C2_Witness ==
    /\ Len(steps) = 1
    /\ LET s == steps[1]
           a == s.cmd_name
       IN  /\ a \notin Children(s.group)
           /\ a \in DOMAIN aliases
           /\ aliases[a] \in Children(s.group)
           /\ Cardinality(Abbreviated(s.group, a)) >= 2
           /\ nodes[s.group].default_cmd_name # None
           /\ s.rv = Child(s.group, aliases[a])
           /\ Len(argv) >= 2

\* C3: a word that is no child and no alias, and a case-insensitive prefix of
\* exactly one child name, resolves to that child; the word is consumed.
C3_UniqueAbbreviation ==
    \A i \in DOMAIN steps :
        LET s == steps[i]
            t == s.cmd_name
        IN  (/\ t \notin Children(s.group)
             /\ t \notin DOMAIN aliases
             /\ Cardinality(Abbreviated(s.group, t)) = 1)
                => \E n \in Abbreviated(s.group, t) :
                       /\ Found(s, Child(s.group, n))
                       /\ invoked = <<[cmd |-> Child(s.group, n), args |-> Tail(argv)]>>

\* The word holds a capital and matches the child only once lower-cased.
C3_Witness ==
    /\ Len(steps) = 1
    /\ LET s == steps[1]
           t == s.cmd_name
       IN  /\ t \notin Children(s.group)
           /\ t \notin DOMAIN aliases
           /\ \E n \in Children(s.group) :
                  /\ Abbreviated(s.group, t) = {n}
                  /\ ~startswith(n, t)
                  /\ t # lower(t)
                  /\ s.rv = Child(s.group, n)

\* C4: a word that is no child and no alias, and a case-insensitive prefix of
\* two or more child names, is a usage error listing exactly those names in
\* ascending order; no command is invoked, the default included.
C4_AmbiguousAbbreviation ==
    \A i \in DOMAIN steps :
        LET s == steps[i]
            t == s.cmd_name
        IN  (/\ t \notin Children(s.group)
             /\ t \notin DOMAIN aliases
             /\ Cardinality(Abbreviated(s.group, t)) >= 2)
                => /\ TooManyMatches(s)
                   /\ SortedListOf(s.names, Abbreviated(s.group, t))
                   /\ message = [text |-> "Too many matches", names |-> s.names]
                   /\ invoked = <<>>
                   /\ pc = "exit"

\* Several matches in a group that declares a default, a capitalised name
\* listed first.
C4_Witness ==
    /\ Len(steps) = 1
    /\ LET s == steps[1]
       IN  /\ s.kind = "fail"
           /\ Len(s.names) >= 2
           /\ ord(s.names[1][1]) <= 26
           /\ nodes[s.group].default_cmd_name # None

\* C5: in a group with default child d, a word that is no child, no alias and
\* a prefix of no child resolves to d with the word as implicit argument, and
\* d is handed the word followed by the remaining arguments.
C5_DefaultKeepsToken ==
    \A i \in DOMAIN steps :
        LET s == steps[i]
            t == s.cmd_name
            d == nodes[s.group].default_cmd_name
        IN  (/\ d \in Children(s.group)
             /\ t \notin Children(s.group)
             /\ t \notin DOMAIN aliases
             /\ Abbreviated(s.group, t) = {})
                => /\ FoundDefault(s, Child(s.group, d), t)
                   /\ invoked = <<[cmd |-> Child(s.group, d), args |-> argv]>>

\* The default is taken with arguments after the word.
C5_Witness ==
    /\ Len(steps) = 1
    /\ Len(argv) >= 2
    /\ LET s == steps[1]
       IN  /\ nodes[s.group].default_cmd_name \in Children(s.group)
           /\ s.arg0 = <<argv[1]>>
           /\ Len(invoked) = 1
           /\ invoked[1].args = argv

\* C6 as stated: an alias a -> b with neither a nor b a child goes on to the
\* abbreviation and default steps with the word a.
C6_DanglingAliasFallsThrough ==
    \A i \in DOMAIN steps :
        LET s == steps[i]
            a == s.cmd_name
            d == nodes[s.group].default_cmd_name
            M == Abbreviated(s.group, a)
        IN  (/\ a \in DOMAIN aliases
             /\ a \notin Children(s.group)
             /\ aliases[a] \notin Children(s.group))
                => /\ Cardinality(M) = 1 => \E n \in M : Found(s, Child(s.group, n))
                   /\ Cardinality(M) >= 2 => TooManyMatches(s)
                   /\ (M = {} /\ d \in Children(s.group))
                          => FoundDefault(s, Child(s.group, d), a)
                   /\ NotFound(s) => (M = {} /\ d \notin Children(s.group))

\* C6 as the code has it: an alias a -> b with neither a nor b a child
\* resolves to no command, a "No such command" usage error, whatever a is a
\* prefix of and whatever the default; no implicit argument is recorded and b
\* is not looked up in the alias table.
C6_DanglingAliasNotFound ==
    \A i \in DOMAIN steps :
        LET s == steps[i]
            a == s.cmd_name
        IN  (/\ a \in DOMAIN aliases
             /\ a \notin Children(s.group)
             /\ aliases[a] \notin Children(s.group))
                => /\ NotFound(s)
                   /\ s.arg0 = <<>>
                   /\ message = [text |-> "No such command", names |-> <<a>>]
                   /\ invoked = <<>>
                   /\ pc = "exit"
                   /\ exit_code = UsageError_exit_code

\* A dangling alias that is a prefix of a child, in a group with a default,
\* whose target is itself an alias of a child.
C6_Witness ==
    /\ Len(steps) = 1
    /\ LET s == steps[1]
           a == s.cmd_name
       IN  /\ a \in DOMAIN aliases
           /\ a \notin Children(s.group)
           /\ aliases[a] \notin Children(s.group)
           /\ Abbreviated(s.group, a) # {}
           /\ nodes[s.group].default_cmd_name # None
           /\ aliases[a] \in DOMAIN aliases
           /\ aliases[aliases[a]] \in Children(s.group)
           /\ s.rv = NoCommand

----------------------------------------------------------------------------
(* Claims about the show command (Spec). *)

\* The group a run starts at.
Root == IF "cli" \in DOMAIN nodes THEN "cli" ELSE "G"

\* Every resolution so far returned a command and set no implicit argument.
AllFound ==
    \A i \in DOMAIN steps :
        steps[i].kind = "return" /\ steps[i].rv # NoCommand /\ steps[i].arg0 = <<>>

\* C7 as stated: at every group the dispatcher visits, a word that is no child
\* resolves by alias to the alias's target, by unique case-insensitive prefix
\* to the child it abbreviates, and is a usage error when the prefix is
\* ambiguous.
C7_ThreeTierAtEveryGroup ==
    \A i \in DOMAIN steps :
        LET s == steps[i]
            t == s.cmd_name
            M == Abbreviated(s.group, t)
        IN  t \notin Children(s.group)
                => /\ (t \in DOMAIN aliases /\ aliases[t] \in Children(s.group))
                          => Found(s, Child(s.group, aliases[t]))
                   /\ (t \notin DOMAIN aliases /\ Cardinality(M) = 1)
                          => \E n \in M : Found(s, Child(s.group, n))
                   /\ (t \notin DOMAIN aliases /\ Cardinality(M) >= 2)
                          => TooManyMatches(s)

\* The names registered under both the root group and the ip group.
SharedNames ==
    { <<"i","n","t","e","r","f","a","c","e","s">>, <<"b","g","p">>,
      <<"a","r","p">>, <<"r","o","u","t","e">> }

\* C8: for a name registered under both cli and ip, "ip <name> <tail>" ends as
\* "<name> <tail>" does: the same node is reached, the same resolutions follow
\* inside it, and the same command is handed the same arguments or the same
\* message is shown.
C8_SharedChildrenEitherParent ==
    (/\ pc = "exit"
     /\ Len(argv) >= 2
     /\ argv[1] = <<"i","p">>
     /\ argv[2] \in SharedNames)
        => LET direct == main("cli", Tail(argv))
           IN  /\ Len(steps) >= 2
               /\ Len(direct.steps) >= 1
               /\ steps[2].group = "ip"
               /\ direct.steps[1].group = "cli"
               /\ Found(steps[2], direct.steps[1].rv)
               /\ Found(direct.steps[1], Child("cli", argv[2]))
               /\ SubSeq(steps, 3, Len(steps)) = SubSeq(direct.steps, 2, Len(direct.steps))
               /\ invoked = direct.invoked
               /\ message = direct.message

\* "ip interfaces <abbreviation>" has run a command of the interfaces group.
C8_Witness ==
    /\ pc = "exit"
    /\ Len(argv) = 3
    /\ argv[1] = <<"i","p">>
    /\ argv[2] = <<"i","n","t","e","r","f","a","c","e","s">>
    /\ Len(steps) = 3
    /\ steps[3].group = "interfaces"
    /\ steps[3].cmd_name \notin Children("interfaces")
    /\ Len(invoked) = 1

\* C9: at most one command is ever invoked; and in a run on a non-empty
\* argument vector, while every word resolves to a command without an implicit
\* argument, the i-th resolution is of the i-th word, at the group the previous
\* word resolved to; the context keeps the words not yet resolved; and the
\* command invoked is the one the last word resolved to, handed exactly the
\* words after it.
C9_OneTokenPerStep ==
    /\ Len(invoked) <= 1
    /\ (AllFound /\ argv # <<>>) =>
        LET k == Len(steps)
        IN  /\ k <= Len(argv)
            /\ \A i \in 1..k :
                   /\ steps[i].cmd_name = argv[i]
                   /\ steps[i].group = (IF i = 1 THEN Root ELSE steps[i - 1].rv)
                   /\ (i < k => nodes[steps[i].rv].cls # "Command")
            /\ pc = "invoke" =>
                   /\ ctx_args = SubSeq(argv, k + 1, Len(argv))
                   /\ cur = (IF k = 0 THEN Root ELSE steps[k].rv)
                   /\ invoked = <<>>
            /\ invoked # <<>> =>
                   /\ k >= 1
                   /\ nodes[steps[k].rv].cls = "Command"
                   /\ invoked = <<[cmd |-> steps[k].rv,
                                   args |-> SubSeq(argv, k + 1, Len(argv))]>>

\* Two words resolved, the second by abbreviation, and a word left for the
\* command.
C9_Witness ==
    /\ Len(argv) = 3
    /\ Len(steps) = 2
    /\ steps[2].cmd_name \notin Children(steps[2].group)
    /\ Len(invoked) = 1
    /\ invoked[1].args = <<argv[3]>>

====
